---- MODULE Spec2Model ----
(***************************************************************************)
(* Model of neurostack's AgentOrchestrator (core/agents/orchestrator.py):  *)
(* the executor registry, the workflow table, the status table and the     *)
(* scheduling loop of run_workflow with its asyncio.gather batches.        *)
(*                                                                         *)
(* One action is one atomic section of the asyncio program: the code       *)
(* between two awaits runs without interleaving.                           *)
(***************************************************************************)
EXTENDS Integers, Sequences, FiniteSets, TLC

\* ------------------------------------------------------------------ bounds
MaxSteps == 2        \* longest step list of a definition
MaxConc == 2         \* largest max_concurrent of a definition
MaxDeps == 1         \* most dependencies a step lists

\* ------------------------------------------------------------ input sets
StepIds == {"a", "b"}
DepIds == StepIds \cup {"z"}
AgentNames == {"echo", "flaky", "ghost"}
WorkflowIds == {"w1", "w2"}
RunIds == {1, 2}
None == "None"

\* ------------------------------------------------------------ task values
\* A task (and an executor's output) is a Python str, modelled as a sequence
\* of tokens, or a structured value (a list of tokens).
Str(s) == [isstr |-> TRUE, val |-> s]
Struct(s) == [isstr |-> FALSE, val |-> s]
NoTask == Struct(<<"None">>)

\* str(result)
str(v) == IF v.isstr THEN v.val ELSE <<"[">> \o v.val \o <<"]">>

\* f"{{step.{step_id}}}"
placeholder(step_id) == <<"{step.", step_id, "}">>

\* placeholder in task
Contains(s, pat) ==
    \E i \in 1..(Len(s) - Len(pat) + 1) : SubSeq(s, i, i + Len(pat) - 1) = pat

\* a replace that stops after the first occurrence: task.replace(old, new, 1)
replace_first(s, old, new) ==
    IF ~(\E i \in 1..(Len(s) - Len(old) + 1) : SubSeq(s, i, i + Len(old) - 1) = old)
    THEN s
    ELSE LET i == CHOOSE i \in 1..(Len(s) - Len(old) + 1) :
                    /\ SubSeq(s, i, i + Len(old) - 1) = old
                    /\ \A j \in 1..(i - 1) : SubSeq(s, j, j + Len(old) - 1) # old
         IN SubSeq(s, 1, i - 1) \o new \o SubSeq(s, i + Len(old), Len(s))

\* task.replace(old, new): every non-overlapping occurrence, left to right
RECURSIVE replace(_, _, _)
replace(s, old, new) ==
    IF Len(s) < Len(old) THEN s
    ELSE IF SubSeq(s, 1, Len(old)) = old
         THEN new \o replace(SubSeq(s, Len(old) + 1, Len(s)), old, new)
         ELSE <<Head(s)>> \o replace(Tail(s), old, new)

\* the for loop of _prepare_task over step_results.items(), in dict order
RECURSIVE substitute(_, _)
substitute(s, items) ==
    IF items = <<>> THEN s
    ELSE LET ph == placeholder(Head(items).id)
         IN substitute(IF Contains(s, ph)
                          THEN replace(s, ph, str(Head(items).val))
                          ELSE s,
                       Tail(items))

\* a _prepare_task without the isinstance(task, str) test
prepare_task_any(task, sr) ==
    [isstr |-> task.isstr, val |-> substitute(task.val, sr)]

\* _prepare_task
prepare_task(task, sr) ==
    IF task.isstr THEN Str(substitute(task.val, sr)) ELSE task

\* ---------------------------------------------------- dicts kept in order
\* step_results is a Python dict: a sequence of [id, val] in insertion order
Keys(sr) == {sr[i].id : i \in 1..Len(sr)}
Lookup(sr, k) == sr[CHOOSE i \in 1..Len(sr) : sr[i].id = k].val
DictSet(sr, k, v) ==
    IF k \in Keys(sr)
    THEN [i \in 1..Len(sr) |-> IF sr[i].id = k THEN [id |-> k, val |-> v] ELSE sr[i]]
    ELSE Append(sr, [id |-> k, val |-> v])

\* a dict whose order nobody reads is a function on its keys
Put(d, k, v) == [x \in DOMAIN d \cup {k} |-> IF x = k THEN v ELSE d[x]]
Del(d, k) == [x \in DOMAIN d \ {k} |-> d[x]]
EmptyDict == [x \in {} |-> None]

\* ----------------------------------------------------------- error values
AgentNotFound(name) == [kind |-> "Agent not found", arg |-> <<name>>]
Boom == [kind |-> "boom", arg |-> <<>>]
CircularDependency(remaining) ==
    [kind |-> "Circular dependency detected in steps", arg |-> remaining]
NoExc == [kind |-> "None", arg |-> <<>>]

\* ------------------------------------------------------------- data model
WorkflowStep(id, agent_name, task, dependencies) ==
    [id |-> id, agent_name |-> agent_name, task |-> task,
     dependencies |-> dependencies]

WorkflowDefinition(steps, max_concurrent) ==
    [steps |-> steps, max_concurrent |-> max_concurrent]

WorkflowResult(st) == [state |-> st, results |-> <<>>, errors |-> EmptyDict]

VARIABLES
    agents,            \* self.agents: name -> executor behaviour or None
    workflows,         \* self.workflows: workflow id -> definition or None
    active_workflows,  \* self.active_workflows: workflow id -> the run whose
                       \* WorkflowResult object is stored, or None
    pc,                \* where each run_workflow call stands
    wid,               \* the workflow_id argument of each call
    result,            \* the WorkflowResult object of each call
    completed_steps,   \* local completed_steps of each call
    step_results,      \* local step_results of each call
    tasks,             \* the coroutines handed to asyncio.gather
    outcome,           \* how each call ended: returned or raised
    ret                \* the value returned by the cancel_workflow,
                       \* register_agent or unregister_agent call made in
                       \* the last step, NoCall after any other step

vars == <<agents, workflows, active_workflows, pc, wid, result,
          completed_steps, step_results, tasks, outcome, ret>>

\* return values of the synchronous calls
NoCall == [op |-> "None", arg |-> <<>>, val |-> "None"]
Returns(op, arg, val) == [op |-> op, arg |-> arg, val |-> val]

\* --------------------------------------------------------------- registry
Behaviours == {"echo", "flaky"}

\* get_agent: self.agents.get(name)
get_agent(name) == IF name \in DOMAIN agents THEN agents[name] ELSE None

\* list_agents
list_agents == DOMAIN agents

\* get_workflow_status: self.active_workflows.get(workflow_id)
Absent == WorkflowResult("None")
get_workflow_status(w) ==
    IF w \in DOMAIN active_workflows THEN result[active_workflows[w]] ELSE Absent

\* ------------------------------------------------------- scheduling loop
Min(x, y) == IF x <= y THEN x ELSE y
Max(x, y) == IF x >= y THEN x ELSE y

\* a slice that forgets the cap: seq[:]
Slice_all(s, n) == s

\* Python's seq[:n]
Slice(s, n) ==
    SubSeq(s, 1, IF n >= 0 THEN Min(n, Len(s)) ELSE Max(Len(s) + n, 0))

\* an executable_steps that forgets the dependency test
executable_steps_nodeps(steps, completed) ==
    SelectSeq([i \in 1..Len(steps) |-> i],
              LAMBDA i : steps[i].id \notin completed)

\* executable_steps: positions, in list order, of the steps that are not
\* completed and whose dependencies are all completed
executable_steps(steps, completed) ==
    SelectSeq([i \in 1..Len(steps) |-> i],
              LAMBDA i : /\ steps[i].id \notin completed
                         /\ \A dep \in steps[i].dependencies : dep \in completed)

\* a remaining_steps that forgets the filter: every step id
remaining_steps_all(steps, completed) == [k \in 1..Len(steps) |-> steps[k].id]

\* remaining_steps: ids, in list order, of the steps that are not completed
remaining_steps(steps, completed) ==
    LET idx == SelectSeq([i \in 1..Len(steps) |-> i],
                         LAMBDA i : steps[i].id \notin completed)
    IN [k \in 1..Len(idx) |-> steps[idx[k]].id]

\* a loop that builds the coroutine of the first step of the batch only
NewTasks_first(batch) ==
    [k \in 1..Min(1, Len(batch)) |->
        [step |-> batch[k], st |-> "created", agent |-> None,
         arg |-> NoTask, ret |-> NoTask, exc |-> NoExc]]

\* the coroutine objects built for one batch
NewTasks(batch) ==
    [k \in 1..Len(batch) |->
        [step |-> batch[k], st |-> "created", agent |-> None,
         arg |-> NoTask, ret |-> NoTask, exc |-> NoExc]]

\* a finally that leaves the status entry in place
Cleanup_keep(act, w) == act

\* finally: the status entry of the workflow id is deleted
Cleanup(act, w) == IF w \in DOMAIN act THEN Del(act, w) ELSE act

\* an except branch that ends with a raise
except_reraise == "raised"

\* how run_workflow ends after except Exception: no raise, return result
except_outcome == "returned"

\* One pass from the while test to the next await or to the return, for run r
\* on workflow w, given the values the locals have at the while test.
LoopTop(r, w, cs, sr, res, act) ==
    LET definition == workflows[w]
        steps == definition.steps
        executable == executable_steps(steps, cs)
        batch == Slice(executable, definition.max_concurrent)
    IN /\ completed_steps' = [completed_steps EXCEPT ![r] = cs]
       /\ step_results' = [step_results EXCEPT ![r] = sr]
       /\ IF ~(Cardinality(cs) < Len(steps))
          THEN \* the loop is left: results are published, state COMPLETED
               /\ result' = [result EXCEPT
                      ![r] = [res EXCEPT !.results = sr, !.state = "completed"]]
               /\ active_workflows' = Cleanup(act, w)
               /\ pc' = [pc EXCEPT ![r] = "done"]
               /\ outcome' = [outcome EXCEPT ![r] = "returned"]
               /\ tasks' = [tasks EXCEPT ![r] = <<>>]
          ELSE IF executable = <<>>
          THEN \* raise ValueError, caught by except Exception, then finally
               /\ result' = [result EXCEPT
                      ![r] = [res EXCEPT
                          !.state = "failed",
                          !.errors = Put(res.errors, "workflow",
                              CircularDependency(remaining_steps(steps, cs)))]]
               /\ active_workflows' = Cleanup(act, w)
               /\ pc' = [pc EXCEPT ![r] = "done"]
               /\ outcome' = [outcome EXCEPT ![r] = except_outcome]
               /\ tasks' = [tasks EXCEPT ![r] = <<>>]
          ELSE IF batch = <<>>
          THEN \* if tasks: is false; the while loop turns without an await
               /\ result' = [result EXCEPT ![r] = res]
               /\ active_workflows' = act
               /\ pc' = [pc EXCEPT ![r] = "spin"]
               /\ outcome' = outcome
               /\ tasks' = [tasks EXCEPT ![r] = <<>>]
          ELSE \* await asyncio.gather(*tasks, return_exceptions=True)
               /\ result' = [result EXCEPT ![r] = res]
               /\ active_workflows' = act
               /\ pc' = [pc EXCEPT ![r] = "gather"]
               /\ outcome' = outcome
               /\ tasks' = [tasks EXCEPT ![r] = NewTasks(batch)]

\* _prepare_task called on its own: the call is the coroutine record, its
\* argument in arg and its return value in ret
PrepareTask(r) ==
    /\ pc[r] = "prep"
    /\ tasks[r][1].st = "created"
    /\ tasks' = [tasks EXCEPT ![r][1] =
           [@ EXCEPT !.st = "returned",
                     !.ret = prepare_task(tasks[r][1].arg, step_results[r])]]
    /\ ret' = NoCall
    /\ UNCHANGED <<agents, workflows, active_workflows, pc, wid, result,
                   completed_steps, step_results, outcome>>

\* a run_workflow that stores a result before it looks the workflow up
StartRun_store(r, w) ==
    /\ pc[r] = "idle"
    /\ ret' = NoCall
    /\ wid' = [wid EXCEPT ![r] = w]
    /\ UNCHANGED <<agents, workflows>>
    /\ IF w \notin DOMAIN workflows
       THEN /\ pc' = [pc EXCEPT ![r] = "done"]
            /\ outcome' = [outcome EXCEPT ![r] = "raised"]
            /\ active_workflows' = Put(active_workflows, w, r)
            /\ result' = [result EXCEPT ![r] = WorkflowResult("failed")]
            /\ UNCHANGED <<completed_steps, step_results, tasks>>
       ELSE LoopTop(r, w, {}, <<>>, WorkflowResult("running"),
                    Put(active_workflows, w, r))

\* run_workflow, from the call to the first await
StartRun(r, w) ==
    /\ pc[r] = "idle"
    /\ ret' = NoCall
    /\ wid' = [wid EXCEPT ![r] = w]
    /\ UNCHANGED <<agents, workflows>>
    /\ IF w \notin DOMAIN workflows
       THEN \* raise ValueError(f"Workflow {workflow_id} not found")
            /\ pc' = [pc EXCEPT ![r] = "done"]
            /\ outcome' = [outcome EXCEPT ![r] = "raised"]
            /\ UNCHANGED <<active_workflows, result, completed_steps,
                           step_results, tasks>>
       ELSE LoopTop(r, w, {}, <<>>, WorkflowResult("running"),
                    Put(active_workflows, w, r))

\* a _execute_step that prepares the task from one step_results dict shared
\* by every run of the orchestrator
CallStart_global(r, k) ==
    /\ pc[r] = "gather"
    /\ k \in 1..Len(tasks[r])
    /\ tasks[r][k].st = "created"
    /\ \A j \in 1..(k - 1) : tasks[r][j].st # "created"
    /\ LET step == workflows[wid[r]].steps[tasks[r][k].step]
           agent == get_agent(step.agent_name)
       IN tasks' = [tasks EXCEPT ![r][k] =
              IF agent = None
              THEN [@ EXCEPT !.st = "raised",
                             !.exc = AgentNotFound(step.agent_name)]
              ELSE [@ EXCEPT !.st = "awaiting", !.agent = agent,
                             !.arg = prepare_task(step.task,
                                         step_results[1] \o step_results[2])]]
    /\ ret' = NoCall
    /\ UNCHANGED <<agents, workflows, active_workflows, pc, wid, result,
                   completed_steps, step_results, outcome>>

\* _execute_step, from its start to await agent.execute(task, context).
\* asyncio starts the tasks of a gather in the order they were passed.
CallStart(r, k) ==
    /\ pc[r] = "gather"
    /\ k \in 1..Len(tasks[r])
    /\ tasks[r][k].st = "created"
    /\ \A j \in 1..(k - 1) : tasks[r][j].st # "created"
    /\ LET step == workflows[wid[r]].steps[tasks[r][k].step]
           agent == get_agent(step.agent_name)
       IN tasks' = [tasks EXCEPT ![r][k] =
              IF agent = None
              THEN [@ EXCEPT !.st = "raised",
                             !.exc = AgentNotFound(step.agent_name)]
              ELSE [@ EXCEPT !.st = "awaiting", !.agent = agent,
                             !.arg = prepare_task(step.task, step_results[r])]]
    /\ ret' = NoCall
    /\ UNCHANGED <<agents, workflows, active_workflows, pc, wid, result,
                   completed_steps, step_results, outcome>>

\* a CallReturn whose task writes its output into step_results itself
CallReturn_shared(r, k) ==
    /\ pc[r] = "gather"
    /\ k \in 1..Len(tasks[r])
    /\ tasks[r][k].st = "awaiting"
    /\ tasks' = [tasks EXCEPT ![r][k] =
                    [@ EXCEPT !.st = "returned", !.ret = tasks[r][k].arg]]
    /\ step_results' = [step_results EXCEPT ![r] =
           DictSet(@, workflows[wid[r]].steps[tasks[r][k].step].id,
                   tasks[r][k].arg)]
    /\ ret' = NoCall
    /\ UNCHANGED <<agents, workflows, active_workflows, pc, wid, result,
                   completed_steps, outcome>>

\* agent.execute returns: both executors return the task they were given
CallReturn(r, k) ==
    /\ pc[r] = "gather"
    /\ k \in 1..Len(tasks[r])
    /\ tasks[r][k].st = "awaiting"
    /\ tasks' = [tasks EXCEPT ![r][k] =
                    [@ EXCEPT !.st = "returned", !.ret = tasks[r][k].arg]]
    /\ ret' = NoCall
    /\ UNCHANGED <<agents, workflows, active_workflows, pc, wid, result,
                   completed_steps, step_results, outcome>>

\* agent.execute raises: only the flaky executor does
CallRaise(r, k) ==
    /\ pc[r] = "gather"
    /\ k \in 1..Len(tasks[r])
    /\ tasks[r][k].st = "awaiting"
    /\ tasks[r][k].agent = "flaky"
    /\ tasks' = [tasks EXCEPT ![r][k] = [@ EXCEPT !.st = "raised", !.exc = Boom]]
    /\ ret' = NoCall
    /\ UNCHANGED <<agents, workflows, active_workflows, pc, wid, result,
                   completed_steps, step_results, outcome>>

\* a Record that drops the exception of a failed step
RECURSIVE Record_silent(_, _, _)
Record_silent(steps, ts, acc) ==
    IF ts = <<>> THEN acc
    ELSE LET t == Head(ts)
             id == steps[t.step].id
         IN Record_silent(steps, Tail(ts),
                IF t.st = "raised"
                THEN [acc EXCEPT !.res = [acc.res EXCEPT !.state = "failed"]]
                ELSE [acc EXCEPT
                        !.sr = DictSet(acc.sr, id, t.ret),
                        !.cs = acc.cs \cup {id}])

\* the for loop over zip(batch, step_results_batch), folded over the batch
RECURSIVE Record(_, _, _)
Record(steps, ts, acc) ==
    IF ts = <<>> THEN acc
    ELSE LET t == Head(ts)
             id == steps[t.step].id
         IN Record(steps, Tail(ts),
                IF t.st = "raised"
                THEN [acc EXCEPT
                        !.res = [acc.res EXCEPT
                                   !.errors = Put(acc.res.errors, id, t.exc),
                                   !.state = "failed"]]
                ELSE [acc EXCEPT
                        !.sr = DictSet(acc.sr, id, t.ret),
                        !.cs = acc.cs \cup {id}])

\* a Join that goes on as soon as one call of the batch has raised, as a
\* gather without return_exceptions would
Join_failfast(r) ==
    /\ pc[r] = "gather"
    /\ \/ \A k \in 1..Len(tasks[r]) : tasks[r][k].st \in {"returned", "raised"}
       \/ \E k \in 1..Len(tasks[r]) : tasks[r][k].st = "raised"
    /\ LET acc == Record(workflows[wid[r]].steps, tasks[r],
                         [cs |-> completed_steps[r], sr |-> step_results[r],
                          res |-> result[r]])
       IN LoopTop(r, wid[r], acc.cs, acc.sr, acc.res, active_workflows)
    /\ ret' = NoCall
    /\ UNCHANGED <<agents, workflows, wid>>

\* gather has every result: the batch is recorded and the loop goes on to
\* the next await or to the return
Join(r) ==
    /\ pc[r] = "gather"
    /\ \A k \in 1..Len(tasks[r]) : tasks[r][k].st \in {"returned", "raised"}
    /\ LET acc == Record(workflows[wid[r]].steps, tasks[r],
                         [cs |-> completed_steps[r], sr |-> step_results[r],
                          res |-> result[r]])
       IN LoopTop(r, wid[r], acc.cs, acc.sr, acc.res, active_workflows)
    /\ ret' = NoCall
    /\ UNCHANGED <<agents, workflows, wid>>

\* a cancel_workflow that marks the result but forgets the del
CancelWorkflow_nodel(w) ==
    /\ IF w \in DOMAIN active_workflows
       THEN /\ result' = [result EXCEPT ![active_workflows[w]].state = "cancelled"]
            /\ active_workflows' = active_workflows
            /\ ret' = Returns("cancel_workflow", <<w>>, "True")
       ELSE /\ UNCHANGED <<result, active_workflows>>
            /\ ret' = Returns("cancel_workflow", <<w>>, "False")
    /\ UNCHANGED <<agents, workflows, pc, wid, completed_steps, step_results,
                   tasks, outcome>>

\* cancel_workflow
CancelWorkflow(w) ==
    /\ IF w \in DOMAIN active_workflows
       THEN /\ result' = [result EXCEPT ![active_workflows[w]].state = "cancelled"]
            /\ active_workflows' = Del(active_workflows, w)
            /\ ret' = Returns("cancel_workflow", <<w>>, "True")
       ELSE /\ UNCHANGED <<result, active_workflows>>
            /\ ret' = Returns("cancel_workflow", <<w>>, "False")
    /\ UNCHANGED <<agents, workflows, pc, wid, completed_steps, step_results,
                   tasks, outcome>>

\* a register_agent that keeps an executor already registered under the name
RegisterAgent_keep(name, agent) ==
    /\ agents' = IF name \in DOMAIN agents THEN agents ELSE Put(agents, name, agent)
    /\ ret' = Returns("register_agent", <<name, agent>>, "None")
    /\ UNCHANGED <<workflows, active_workflows, pc, wid, result,
                   completed_steps, step_results, tasks, outcome>>

\* register_agent
RegisterAgent(name, agent) ==
    /\ agents' = Put(agents, name, agent)
    /\ ret' = Returns("register_agent", <<name, agent>>, "None")
    /\ UNCHANGED <<workflows, active_workflows, pc, wid, result,
                   completed_steps, step_results, tasks, outcome>>

\* unregister_agent
UnregisterAgent(name) ==
    /\ agents' = IF name \in DOMAIN agents THEN Del(agents, name) ELSE agents
    /\ ret' = Returns("unregister_agent", <<name>>, "None")
    /\ UNCHANGED <<workflows, active_workflows, pc, wid, result,
                   completed_steps, step_results, tasks, outcome>>

\* ------------------------------------------------------------- the inputs
Deps == {d \in SUBSET DepIds : Cardinality(d) <= MaxDeps}
StepLists(S) == UNION {[1..n -> S] : n \in 0..MaxSteps}
Definitions(S) ==
    {WorkflowDefinition(s, m) : s \in StepLists(S), m \in 1..MaxConc}

\* scheduling inputs: any id, executor name and dependencies; a plain task
Hello == Str(<<"h">>)
SchedSteps ==
    {WorkflowStep(id, a, Hello, d) :
        id \in StepIds, a \in AgentNames, d \in Deps}

\* data-flow inputs: tasks with placeholders, registered executors
GotA == Str(<<"g", "{step.", "a", "}">>)
TwiceA == Str(<<"{step.", "a", "}", "{step.", "a", "}">>)
Items == Struct(<<"x">>)
DataTasks == {Hello, GotA, TwiceA, Items}
DataSteps ==
    {WorkflowStep(id, a, t, d) :
        id \in StepIds, a \in {"echo", "flaky"}, t \in DataTasks,
        d \in {{}, {"a"}}}

\* registry inputs: a step names a registered or an unregistered executor
RegSteps ==
    {WorkflowStep(id, a, Hello, {}) : id \in StepIds, a \in {"echo", "ghost"}}

\* The orchestrator after construction, the register_agent calls of reg and
\* one create_workflow(d); one run_workflow call is about to be made.
InitWith(reg, D) ==
    /\ agents = reg
    /\ \E d \in D : workflows = [w \in {"w1"} |-> d]
    /\ active_workflows = EmptyDict
    /\ pc = [r \in RunIds |-> IF r = 1 THEN "idle" ELSE "unused"]
    /\ wid = [r \in RunIds |-> None]
    /\ result = [r \in RunIds |-> WorkflowResult("pending")]
    /\ completed_steps = [r \in RunIds |-> {}]
    /\ step_results = [r \in RunIds |-> <<>>]
    /\ tasks = [r \in RunIds |-> <<>>]
    /\ outcome = [r \in RunIds |-> None]
    /\ ret = NoCall

Registered == [n \in {"echo", "flaky"} |-> n]

Init == InitWith(Registered, Definitions(SchedSteps))
InitData == InitWith(Registered, Definitions(DataSteps))
InitReg == InitWith([n \in {"echo"} |-> n], Definitions(RegSteps))

\* inputs of _prepare_task: tasks with placeholders of recorded and of
\* unrecorded ids, outputs that themselves hold the text of a placeholder
PrepTasks ==
    {Hello, GotA, TwiceA, Items, Struct(placeholder("a")),
     Str(placeholder("a") \o placeholder("b")),
     Str(<<"g">> \o placeholder("z") \o placeholder("a"))}
PrepVals == {Hello, Items, Str(placeholder("a")), Str(placeholder("b"))}
ResultMaps ==
    {m \in UNION {[1..n -> [id : StepIds, val : PrepVals]] :
                      n \in 0..Min(MaxSteps, Cardinality(StepIds))} :
        \A i, j \in 1..Len(m) : i # j => m[i].id # m[j].id}

\* _prepare_task(task, step_results) is about to be called
InitPrep ==
    /\ agents = Registered
    /\ workflows = EmptyDict
    /\ active_workflows = EmptyDict
    /\ pc = [r \in RunIds |-> IF r = 1 THEN "prep" ELSE "unused"]
    /\ wid = [r \in RunIds |-> None]
    /\ result = [r \in RunIds |-> WorkflowResult("pending")]
    /\ completed_steps = [r \in RunIds |-> {}]
    /\ \E m \in ResultMaps :
           step_results = [r \in RunIds |-> IF r = 1 THEN m ELSE <<>>]
    /\ \E t \in PrepTasks :
           tasks = [r \in RunIds |->
                      IF r = 1
                      THEN <<[step |-> 0, st |-> "created", agent |-> None,
                              arg |-> t, ret |-> NoTask, exc |-> NoExc]>>
                      ELSE <<>>]
    /\ outcome = [r \in RunIds |-> None]
    /\ ret = NoCall

NextPrep == \E r \in RunIds : PrepareTask(r)

\* calls of _prepare_task
SpecPrep == InitPrep /\ [][NextPrep]_vars

\* the steps of one run_workflow call
RunStep(r) ==
    \/ \E k \in 1..MaxSteps : CallStart(r, k)
    \/ \E k \in 1..MaxSteps : CallReturn(r, k)
    \/ \E k \in 1..MaxSteps : CallRaise(r, k)
    \/ Join(r)

Next ==
    \/ \E r \in RunIds, w \in WorkflowIds : StartRun(r, w)
    \/ \E r \in RunIds, k \in 1..MaxSteps : CallStart(r, k)
    \/ \E r \in RunIds, k \in 1..MaxSteps : CallReturn(r, k)
    \/ \E r \in RunIds, k \in 1..MaxSteps : CallRaise(r, k)
    \/ \E r \in RunIds : Join(r)
    \/ \E w \in WorkflowIds : CancelWorkflow(w)

NextReg ==
    \/ \E r \in RunIds, w \in WorkflowIds : StartRun(r, w)
    \/ \E r \in RunIds, k \in 1..MaxSteps : CallStart(r, k)
    \/ \E r \in RunIds, k \in 1..MaxSteps : CallReturn(r, k)
    \/ \E r \in RunIds, k \in 1..MaxSteps : CallRaise(r, k)
    \/ \E r \in RunIds : Join(r)
    \/ \E n \in {"echo", "ghost"}, a \in Behaviours : RegisterAgent(n, a)
    \/ \E n \in {"echo", "ghost"} : UnregisterAgent(n)

\* a run with a fixed registry
Spec == Init /\ [][Next]_vars

\* a run over tasks with placeholders
SpecData == InitData /\ [][Next]_vars

\* a run during which executors are registered and unregistered
SpecReg == InitReg /\ [][NextReg]_vars

\* one run that nobody cancels
NextRun ==
    \/ \E r \in RunIds, w \in WorkflowIds : StartRun(r, w)
    \/ \E r \in RunIds, k \in 1..MaxSteps : CallStart(r, k)
    \/ \E r \in RunIds, k \in 1..MaxSteps : CallReturn(r, k)
    \/ \E r \in RunIds, k \in 1..MaxSteps : CallRaise(r, k)
    \/ \E r \in RunIds : Join(r)

\* the event loop keeps running a run_workflow call that can take a step
FairSpec == Init /\ [][NextRun]_vars /\ \A r \in RunIds : WF_vars(RunStep(r))

\* inputs of overlapping runs: workflow w1 is any list of independent
\* steps, workflow w2 one step whose task names a step id of w1
TwoSteps ==
    {WorkflowStep(id, a, Hello, {}) : id \in StepIds, a \in {"echo", "flaky"}}
OtherDefinition == WorkflowDefinition(<<WorkflowStep("b", "echo", GotA, {})>>, 1)

\* The orchestrator after two create_workflow calls; two run_workflow calls
\* are about to be made, on the same workflow id or on different ones.
InitTwo ==
    /\ agents = Registered
    /\ \E d \in Definitions(TwoSteps) :
           workflows = [w \in WorkflowIds |->
                          IF w = "w1" THEN d ELSE OtherDefinition]
    /\ active_workflows = EmptyDict
    /\ pc = [r \in RunIds |-> "idle"]
    /\ wid = [r \in RunIds |-> None]
    /\ result = [r \in RunIds |-> WorkflowResult("pending")]
    /\ completed_steps = [r \in RunIds |-> {}]
    /\ step_results = [r \in RunIds |-> <<>>]
    /\ tasks = [r \in RunIds |-> <<>>]
    /\ outcome = [r \in RunIds |-> None]
    /\ ret = NoCall

\* two run_workflow calls on one event loop
SpecTwo == InitTwo /\ [][NextRun]_vars

\* inputs create_workflow accepts: max_concurrent is any int, also 0 or
\* negative
Caps == (0 - 1)..MaxConc
CapDefinitions(S) ==
    {WorkflowDefinition(s, m) : s \in StepLists(S), m \in Caps}
InitCap == InitWith(Registered, CapDefinitions(SchedSteps))

\* a run of a definition with any max_concurrent
SpecCap == InitCap /\ [][NextRun]_vars

\* ------------------------------------------------------------ vocabulary
Steps(r) == workflows[wid[r]].steps
StepOf(r, k) == Steps(r)[tasks[r][k].step]
Started(r) == pc[r] \in {"gather", "spin", "done"} /\ wid[r] \in DOMAIN workflows
Returned(r) == Started(r) /\ pc[r] = "done" /\ outcome[r] = "returned"
IdsOf(steps) == {steps[i].id : i \in 1..Len(steps)}
UniqueIds(steps) ==
    \A i, j \in 1..Len(steps) : i # j => steps[i].id # steps[j].id
NoDangling(steps) ==
    \A i \in 1..Len(steps) : steps[i].dependencies \subseteq IdsOf(steps)
DependsOn(steps, x) ==
    UNION {steps[i].dependencies : i \in {j \in 1..Len(steps) : steps[j].id = x}}
RECURSIVE Reach(_, _, _)
Reach(steps, from, n) ==
    IF n = 0 THEN {}
    ELSE LET next == UNION {DependsOn(steps, x) : x \in from}
         IN next \cup Reach(steps, next, n - 1)
Acyclic(steps) ==
    \A x \in IdsOf(steps) : x \notin Reach(steps, {x}, Len(steps))
AllSettled(ts) == \A k \in 1..Len(ts) : ts[k].st \in {"returned", "raised"}
\* a step of the program in which run r records a batch
JoinStep(r) ==
    pc[r] = "gather" /\ AllSettled(tasks[r]) /\ tasks'[r] # tasks[r]

\* ------------------------------------------------------------------ C1
\* C1: a run_workflow call on an acyclic workflow with no dangling
\* dependency eventually returns, whatever its executors do.
C1_Terminates ==
    \A r \in RunIds :
        (pc[r] = "gather" /\ Acyclic(Steps(r)) /\ NoDangling(Steps(r)))
            ~> (pc[r] = "done")

\* ------------------------------------------------------------------ C2
\* C2: when run_workflow has returned for an acyclic workflow with unique
\* step ids, every step id is in exactly one of results and errors.
C2_ExactlyOne ==
    \A r \in RunIds :
        (Returned(r) /\ Acyclic(Steps(r)) /\ NoDangling(Steps(r))
                     /\ UniqueIds(Steps(r)))
        => \A id \in IdsOf(Steps(r)) :
               (id \in Keys(result[r].results)) # (id \in DOMAIN result[r].errors)

\* ------------------------------------------------------------------ C3
\* C3: the returned state is COMPLETED only if errors is empty, and FAILED
\* if errors has an entry.
C3_FailedIffErrors ==
    \A r \in RunIds :
        Returned(r) =>
            /\ result[r].state = "completed" => DOMAIN result[r].errors = {}
            /\ DOMAIN result[r].errors # {} => result[r].state = "failed"

\* ------------------------------------------------------------------ C4
\* C4: the returned result holds, in results, the output of every step
\* whose executor call succeeded during the run, whatever the final state
\* (stated here for workflows with unique step ids).
C4_ResultsKept ==
    \A r \in RunIds :
        (Returned(r) /\ UniqueIds(Steps(r))) =>
            \A id \in completed_steps[r] :
                /\ id \in Keys(result[r].results)
                /\ Lookup(result[r].results, id) = Lookup(step_results[r], id)

\* ------------------------------------------------------------------ C5
\* C5: whenever a run stands at a point where steps are incomplete and none
\* of them has all its dependencies completed, it has returned with state
\* FAILED and errors["workflow"] names exactly the incomplete step ids.
Unresolved(r) == {id \in IdsOf(Steps(r)) : id \notin completed_steps[r]}
Stuck(r) ==
    /\ Started(r)
    /\ Cardinality(completed_steps[r]) < Len(Steps(r))
    /\ \A i \in 1..Len(Steps(r)) :
           \/ Steps(r)[i].id \in completed_steps[r]
           \/ ~(Steps(r)[i].dependencies \subseteq completed_steps[r])
C5_CycleFails ==
    \A r \in RunIds :
        Stuck(r) =>
            /\ Returned(r)
            /\ result[r].state = "failed"
            /\ "workflow" \in DOMAIN result[r].errors
            /\ result[r].errors["workflow"].kind =
                   "Circular dependency detected in steps"
            /\ LET named == result[r].errors["workflow"].arg
               IN {named[i] : i \in 1..Len(named)} = Unresolved(r)

\* a two-step cycle, a depends on b and b on a, has returned FAILED
C5_Witness ==
    \E r \in RunIds :
        /\ Returned(r)
        /\ Len(Steps(r)) = 2
        /\ Steps(r)[1].id # Steps(r)[2].id
        /\ Steps(r)[1].dependencies = {Steps(r)[2].id}
        /\ Steps(r)[2].dependencies = {Steps(r)[1].id}
        /\ result[r].state = "failed"
        /\ Unresolved(r) = IdsOf(Steps(r))

\* ------------------------------------------------------------------ C6
\* C6: a run whose workflow has a step that depends on itself or on an id
\* that is no step's id eventually returns, with state FAILED (stated here
\* for workflows with unique step ids).
SelfOrDangling(steps) ==
    \E i \in 1..Len(steps) :
        \/ steps[i].id \in steps[i].dependencies
        \/ ~(steps[i].dependencies \subseteq IdsOf(steps))
C6_BadDependencyFails ==
    \A r \in RunIds :
        (Started(r) /\ SelfOrDangling(Steps(r)) /\ UniqueIds(Steps(r)))
            ~> (Returned(r) /\ result[r].state = "failed")

\* ------------------------------------------------------------------ C7
\* C7: once a step's executor lookup has failed, the run eventually returns
\* a result with state FAILED whose errors hold the not-found message under
\* that step's id.
C7_GhostReported ==
    \A r \in RunIds : \A id \in StepIds : \A n \in AgentNames :
        (/\ pc[r] = "gather"
         /\ \E k \in 1..Len(tasks[r]) :
                /\ StepOf(r, k).id = id
                /\ tasks[r][k].st = "raised"
                /\ tasks[r][k].exc = AgentNotFound(n))
            ~> (/\ Returned(r)
                /\ result[r].state = "failed"
                /\ id \in DOMAIN result[r].errors
                /\ result[r].errors[id] = AgentNotFound(n))

\* ------------------------------------------------------------------ C8
\* C8: when a batch is recorded, every call of the batch that raised leaves
\* errors[step id] = the exception of a call of that step; entries of errors
\* are kept until the return; and run_workflow never ends by raising once an
\* executor has been called (it raises only for an unknown workflow id).
C8_Recorded ==
    \A r \in RunIds :
        JoinStep(r) =>
            /\ \A k \in 1..Len(tasks[r]) :
                   tasks[r][k].st = "raised" =>
                       /\ StepOf(r, k).id \in DOMAIN result'[r].errors
                       /\ \E j \in 1..Len(tasks[r]) :
                              /\ StepOf(r, j).id = StepOf(r, k).id
                              /\ tasks[r][j].st = "raised"
                              /\ result'[r].errors[StepOf(r, k).id] = tasks[r][j].exc
            /\ outcome'[r] # "raised"
C8_Kept ==
    \A r \in RunIds :
        pc[r] # "idle" =>
            \A id \in DOMAIN result[r].errors \cap StepIds :
                /\ id \in DOMAIN result'[r].errors
                /\ JoinStep(r) \/ result'[r].errors[id] = result[r].errors[id]
C8_NeverPropagated ==
    \A r \in RunIds : outcome[r] = "raised" => wid[r] \notin DOMAIN workflows
Expected(task, out) ==
    IF task = GotA THEN Str(<<"g">> \o out)
    ELSE IF task = TwiceA THEN Str(out \o out)
    ELSE task
LinearFlow(steps) ==
    steps = <<WorkflowStep("a", "echo", Hello, {}),
              WorkflowStep("b", "echo", GotA, {"a"})>>
C9_DataFlow ==
    \A r \in RunIds :
        /\ pc[r] = "gather" =>
               \A k \in 1..Len(tasks[r]) :
                   (/\ tasks[r][k].st \in {"awaiting", "returned"}
                    /\ "a" \in StepOf(r, k).dependencies)
                   => tasks[r][k].arg =
                          Expected(StepOf(r, k).task,
                                   str(Lookup(step_results[r], "a")))
        /\ pc[r] = "gather" =>
               \A k \in 1..Len(tasks[r]) :
                   (/\ tasks[r][k].st \in {"awaiting", "returned"}
                    /\ StepOf(r, k).task = GotA
                    /\ "a" \in Keys(step_results[r])
                    /\ Lookup(step_results[r], "a") = Items)
                   => tasks[r][k].arg = Str(<<"g", "[", "x", "]">>)
        /\ (Returned(r) /\ LinearFlow(Steps(r))) =>
               /\ result[r].results = <<[id |-> "a", val |-> Str(<<"h">>)],
                                        [id |-> "b", val |-> Str(<<"g", "h">>)]>>
               /\ result[r].state = "completed"

\* the linear flow has returned, and b was executed on "gh"
C9_Witness ==
    \E r \in RunIds :
        /\ Returned(r)
        /\ LinearFlow(Steps(r))
        /\ Lookup(result[r].results, "b") = Str(<<"g", "h">>)

\* an executor was called on a task in which {step.a} occurred twice
C9_WitnessTwice ==
    \E r \in RunIds :
        /\ pc[r] = "gather"
        /\ \E k \in 1..Len(tasks[r]) :
               /\ tasks[r][k].st = "awaiting"
               /\ StepOf(r, k).task = TwiceA
               /\ "a" \in StepOf(r, k).dependencies

\* ----------------------------------------------------------------- C10
\* C10: while a batch is in flight, step_results holds no output of a step
\* of the batch, and a call whose sibling in the batch has id a was given
\* its task with {step.a} unreplaced, whether or not the sibling has
\* already returned.
BatchIds(r) == {StepOf(r, k).id : k \in 1..Len(tasks[r])}
C10_BatchIsolation ==
    \A r \in RunIds :
        pc[r] = "gather" =>
            /\ Keys(step_results[r]) \cap BatchIds(r) = {}
            /\ \A k \in 1..Len(tasks[r]) :
                   (/\ tasks[r][k].st \in {"awaiting", "returned"}
                    /\ "a" \in BatchIds(r))
                   => tasks[r][k].arg = StepOf(r, k).task

\* a call on "g{step.a}" started after its sibling a had returned
C10_Witness ==
    \E r \in RunIds :
        /\ pc[r] = "gather"
        /\ Len(tasks[r]) = 2
        /\ StepOf(r, 1).id = "a"
        /\ tasks[r][1].st = "returned"
        /\ StepOf(r, 2).task = GotA
        /\ tasks[r][2].st = "awaiting"

\* ----------------------------------------------------------------- C11
\* C11: at every instant of a run, the number of executor calls that have
\* started and not yet returned or raised is at most max_concurrent.
InFlight(r) == {k \in 1..Len(tasks[r]) : tasks[r][k].st = "awaiting"}
C11_ConcurrencyBound ==
    \A r \in RunIds :
        pc[r] = "gather" =>
            Cardinality(InFlight(r)) <= workflows[wid[r]].max_concurrent

\* max_concurrent = 1, two steps with no dependencies and different ids:
\* one call is in flight while the other step has not been dispatched
C11_Witness ==
    \E r \in RunIds :
        /\ pc[r] = "gather"
        /\ workflows[wid[r]].max_concurrent = 1
        /\ Len(Steps(r)) = 2
        /\ UniqueIds(Steps(r))
        /\ \A i \in 1..2 : Steps(r)[i].dependencies = {}
        /\ Cardinality(InFlight(r)) = 1

\* ----------------------------------------------------------------- C12
\* C12: once the state of a run's WorkflowResult is COMPLETED, FAILED or
\* CANCELLED, no step of the program changes it to a different state.
Terminal == {"completed", "failed", "cancelled"}
C12_StateMonotonic ==
    [][\A r \in RunIds :
          (pc[r] # "idle" /\ result[r].state \in Terminal)
              => result'[r].state = result[r].state]_vars

\* ----------------------------------------------------------------- C13
\* C13: the step that begins a run stores the run's result in the status
\* table under the workflow id; the step in which run_workflow returns
\* leaves no entry for that id, and after the return
\* get_workflow_status(id) is absent.
C13_Begin ==
    \A r \in RunIds :
        (pc[r] = "idle" /\ pc'[r] = "gather") =>
            /\ wid'[r] \in DOMAIN active_workflows'
            /\ active_workflows'[wid'[r]] = r
            /\ result'[r].state = "running"
C13_End ==
    \A r \in RunIds :
        (pc[r] # "done" /\ pc'[r] = "done" /\ outcome'[r] = "returned") =>
            wid'[r] \notin DOMAIN active_workflows'
C13_AfterReturn ==
    \A r \in RunIds : Returned(r) => get_workflow_status(wid[r]) = Absent
C13_StatusEntry ==
    /\ [][C13_Begin /\ C13_End]_vars
    /\ []C13_AfterReturn

\* run_workflow has returned after recording a batch, and nobody cancelled
\* the run: the entry stored at the start is gone
C13_Witness ==
    \E r \in RunIds :
        /\ Returned(r)
        /\ completed_steps[r] # {}
        /\ result[r].state # "cancelled"
        /\ wid[r] \notin DOMAIN active_workflows

\* ----------------------------------------------------------------- C14
\* C14: cancel_workflow(id) returns True exactly when id is in the status
\* table at the call; it then sets the stored result's state to CANCELLED
\* and removes the entry, so that get_workflow_status(id) is absent and a
\* cancel_workflow(id) made next returns False; when id is not tracked it
\* returns False and changes neither the table nor any result.
C14_Call ==
    \A w \in WorkflowIds :
        (ret'.op = "cancel_workflow" /\ ret'.arg = <<w>>) =>
            /\ (ret'.val = "True") <=> (w \in DOMAIN active_workflows)
            /\ ret'.val \in {"True", "False"}
            /\ w \in DOMAIN active_workflows =>
                   /\ result'[active_workflows[w]].state = "cancelled"
                   /\ w \notin DOMAIN active_workflows'
                   /\ \A v \in DOMAIN active_workflows \ {w} :
                          /\ v \in DOMAIN active_workflows'
                          /\ active_workflows'[v] = active_workflows[v]
            /\ w \notin DOMAIN active_workflows =>
                   UNCHANGED <<active_workflows, result>>
C14_Afterwards ==
    \A w \in WorkflowIds :
        ret = Returns("cancel_workflow", <<w>>, "True") =>
            /\ get_workflow_status(w) = Absent
            /\ w \notin DOMAIN active_workflows
C14_Cancel == [][C14_Call]_vars /\ []C14_Afterwards

\* cancel_workflow has just returned True for a run that is awaiting a batch
C14_Witness ==
    \E r \in RunIds :
        /\ pc[r] = "gather"
        /\ ret = Returns("cancel_workflow", <<wid[r]>>, "True")
        /\ result[r].state = "cancelled"

\* ----------------------------------------------------------------- C15
\* C15: when a batch is recorded for a run whose status entry a
\* cancel_workflow call has removed, no further batch is dispatched and
\* the outputs of the batch are not recorded.
CancelledRun(r) == pc[r] = "gather" /\ wid[r] \notin DOMAIN active_workflows
C15_Cooperative ==
    [][\A r \in RunIds :
          (JoinStep(r) /\ CancelledRun(r)) =>
              /\ pc'[r] # "gather"
              /\ step_results'[r] = step_results[r]
              /\ result'[r].results = result[r].results]_vars

\* ----------------------------------------------------------------- C16
\* C16 as claimed: a run that recorded the workflow-level error has ended by
\* raising to its caller, and its result is stored in the status table.
C16_Reraised ==
    \A r \in RunIds :
        (Started(r) /\ pc[r] = "done" /\ "workflow" \in DOMAIN result[r].errors)
        => /\ result[r].state = "failed"
           /\ outcome[r] = "raised"
           /\ wid[r] \in DOMAIN active_workflows
           /\ active_workflows[wid[r]] = r

\* C16 as amended: a run that recorded the workflow-level error has state
\* FAILED, holds the cycle/deadlock error under "workflow", has returned
\* its result to the caller without raising, and has left no entry for the
\* workflow id in the status table.
C16_ReturnedNotRaised ==
    \A r \in RunIds :
        (Started(r) /\ pc[r] = "done" /\ "workflow" \in DOMAIN result[r].errors)
        => /\ result[r].state = "failed"
           /\ result[r].errors["workflow"].kind =
                  "Circular dependency detected in steps"
           /\ outcome[r] = "returned"
           /\ wid[r] \notin DOMAIN active_workflows

\* a run has ended on the cycle/deadlock error after a step had completed
C16_Witness ==
    \E r \in RunIds :
        /\ Started(r) /\ pc[r] = "done"
        /\ "workflow" \in DOMAIN result[r].errors
        /\ completed_steps[r] # {}

\* ----------------------------------------------------------------- C17
\* C17 as claimed: whenever run_workflow has raised to its caller, a result
\* for the workflow id is stored in the status table.
C17_StoredBeforeRaise ==
    \A r \in RunIds :
        (pc[r] = "done" /\ outcome[r] = "raised")
        => wid[r] \in DOMAIN active_workflows

\* C17 as amended: run_workflow raises to its caller only when it is called
\* with a workflow id that create_workflow never returned, and that call
\* creates no WorkflowResult and leaves the status table unchanged.
C17_RaiseStep ==
    \A r \in RunIds :
        (outcome[r] # "raised" /\ outcome'[r] = "raised") =>
            /\ pc[r] = "idle"
            /\ wid'[r] \notin DOMAIN workflows
            /\ UNCHANGED <<active_workflows, result>>
C17_RaisedOnlyUnknown ==
    \A r \in RunIds :
        outcome[r] = "raised" =>
            /\ wid[r] \notin DOMAIN workflows
            /\ result[r] = WorkflowResult("pending")
C17_BareRaise == [][C17_RaiseStep]_vars /\ []C17_RaisedOnlyUnknown

\* run_workflow was called with an id that create_workflow never returned
C17_Witness ==
    \E r \in RunIds :
        /\ pc[r] = "done"
        /\ outcome[r] = "raised"
        /\ wid[r] \in WorkflowIds \ DOMAIN workflows

\* ----------------------------------------------------------------- C18
\* the parts of C18 that do not concern the value unregister returns:
\* after register(name, e), get(name) is e and list() holds name, also
\* when name was registered before; after unregister(name), get(name) is
\* absent; both leave every other name's binding unchanged.
OthersKept(name) ==
    \A n \in AgentNames \ {name} :
        /\ (n \in list_agents') <=> (n \in list_agents)
        /\ get_agent(n)' = get_agent(n)
C18_Register ==
    \A n \in AgentNames, e \in Behaviours :
        ret' = Returns("register_agent", <<n, e>>, "None") =>
            /\ get_agent(n)' = e
            /\ n \in list_agents'
            /\ OthersKept(n)
C18_Unregister ==
    \A n \in AgentNames :
        (ret'.op = "unregister_agent" /\ ret'.arg = <<n>>) =>
            /\ get_agent(n)' = None
            /\ n \notin list_agents'
            /\ OthersKept(n)

\* C18 as claimed: unregister(name) returns true if name was registered
\* and false otherwise.
C18_UnregisterReturnsBool ==
    \A n \in AgentNames :
        (ret'.op = "unregister_agent" /\ ret'.arg = <<n>>) =>
            ret'.val = IF n \in list_agents THEN "True" ELSE "False"
C18_RegistryBool ==
    [][C18_Register /\ C18_Unregister /\ C18_UnregisterReturnsBool]_vars

\* C18 as amended: unregister(name) returns None whether or not name was
\* registered; the other parts as claimed.
C18_UnregisterReturnsNone ==
    \A n \in AgentNames :
        (ret'.op = "unregister_agent" /\ ret'.arg = <<n>>) => ret'.val = "None"
C18_Registry ==
    [][C18_Register /\ C18_Unregister /\ C18_UnregisterReturnsNone]_vars

\* register_agent("echo", flaky) has just returned while a run is awaiting
\* a call that was started on the executor registered under "echo" before
C18_Witness ==
    /\ ret = Returns("register_agent", <<"echo", "flaky">>, "None")
    /\ get_agent("echo") = "flaky"
    /\ \E r \in RunIds :
           /\ pc[r] = "gather"
           /\ \E k \in 1..Len(tasks[r]) :
                  /\ StepOf(r, k).agent_name = "echo"
                  /\ tasks[r][k].agent = "echo"

\* ----------------------------------------------------------------- C19
\* C19: when a batch is recorded, the id of every step of the batch, failed
\* or not, counts as completed, and no step of the batch is dispatched in
\* the batch that follows.
C19_NoRedispatch ==
    [][\A r \in RunIds :
          JoinStep(r) =>
              \A k \in 1..Len(tasks[r]) :
                  /\ StepOf(r, k).id \in completed_steps'[r]
                  /\ pc'[r] = "gather" =>
                         \A j \in 1..Len(tasks'[r]) :
                             tasks'[r][j].step # tasks[r][k].step]_vars

\* ----------------------------------------------------------------- C20
\* C20: every step of a dispatched batch is in the frontier of the
\* completed set (its id is not completed, each of its dependencies is),
\* the batch lists each step once, and every completed id is the id of a
\* step whose output an earlier, settled batch has recorded.
Frontier(r) ==
    {i \in 1..Len(Steps(r)) :
        /\ Steps(r)[i].id \notin completed_steps[r]
        /\ Steps(r)[i].dependencies \subseteq completed_steps[r]}
C20_DependencyOrder ==
    \A r \in RunIds :
        pc[r] = "gather" =>
            /\ \A k \in 1..Len(tasks[r]) : tasks[r][k].step \in Frontier(r)
            /\ \A k, j \in 1..Len(tasks[r]) :
                   k # j => tasks[r][k].step # tasks[r][j].step
            /\ completed_steps[r] = Keys(step_results[r])
            /\ completed_steps[r] \subseteq IdsOf(Steps(r))
            /\ \A k \in 1..Len(tasks[r]) :
                   StepOf(r, k).dependencies \subseteq Keys(step_results[r])

\* a step that lists a dependency has been started
C20_Witness ==
    \E r \in RunIds :
        /\ pc[r] = "gather"
        /\ \E k \in 1..Len(tasks[r]) :
               /\ StepOf(r, k).dependencies # {}
               /\ tasks[r][k].st = "awaiting"

\* ----------------------------------------------------------------- C21
\* C21: within one run, the batch being awaited is replaced by the next one
\* (or dropped) only in a step taken when every call of the batch has
\* returned or raised, a call is started only from a coroutine of the
\* batch being awaited, and a call that has settled stays settled until
\* then; a call that fails while siblings are running changes nothing else.
Lifecycle ==
    {<<"created", "awaiting">>, <<"created", "raised">>,
     <<"awaiting", "returned">>, <<"awaiting", "raised">>}
SameBatch(r) ==
    /\ pc'[r] = "gather"
    /\ Len(tasks'[r]) = Len(tasks[r])
    /\ \A k \in 1..Len(tasks[r]) :
           /\ tasks'[r][k].step = tasks[r][k].step
           /\ \/ tasks'[r][k] = tasks[r][k]
              \/ <<tasks[r][k].st, tasks'[r][k].st>> \in Lifecycle
C21_Barrier ==
    \A r \in RunIds :
        (pc[r] = "gather" /\ ~AllSettled(tasks[r])) =>
            /\ SameBatch(r)
            /\ completed_steps'[r] = completed_steps[r]
            /\ step_results'[r] = step_results[r]
C21_BatchBarrier == [][C21_Barrier]_vars

\* a failure of an earlier batch is on record, and in the batch being
\* awaited one call has raised while a sibling is still running
C21_Witness ==
    \E r \in RunIds :
        /\ pc[r] = "gather"
        /\ DOMAIN result[r].errors # {}
        /\ \E k, j \in 1..Len(tasks[r]) :
               /\ tasks[r][k].st = "raised"
               /\ tasks[r][j].st = "awaiting"

\* ----------------------------------------------------------------- C22
\* C22: in a run over steps with unique ids, when a call of the batch has
\* raised, every step that is in the frontier and not in the batch is
\* eventually dispatched in a batch of the run.
C22_FailSlow ==
    \A r \in RunIds : \A i \in 1..MaxSteps :
        (/\ pc[r] = "gather"
         /\ UniqueIds(Steps(r))
         /\ i \in Frontier(r)
         /\ \A k \in 1..Len(tasks[r]) : tasks[r][k].step # i
         /\ \E k \in 1..Len(tasks[r]) : tasks[r][k].st = "raised")
            ~> (pc[r] = "gather" /\ \E k \in 1..Len(tasks[r]) : tasks[r][k].step = i)

\* ----------------------------------------------------------------- C23
\* C23: a run that has started and not ended is awaiting a batch, and the
\* batch has exactly min(|frontier|, max_concurrent) steps, at least one.
C23_MaximalBatch ==
    \A r \in RunIds :
        (Started(r) /\ pc[r] # "done") =>
            /\ pc[r] = "gather"
            /\ Len(tasks[r]) =
                   Min(Cardinality(Frontier(r)), workflows[wid[r]].max_concurrent)
            /\ Len(tasks[r]) >= 1

\* two steps are in the frontier, the cap allows two, and both are dispatched
C23_Witness ==
    \E r \in RunIds :
        /\ pc[r] = "gather"
        /\ Cardinality(Frontier(r)) = 2
        /\ workflows[wid[r]].max_concurrent = 2
        /\ Len(tasks[r]) = 2

\* ----------------------------------------------------------------- C24
\* C24: _prepare_task returns a structured task unchanged; it returns a
\* string task unchanged when no recorded id has its placeholder in it; and
\* a placeholder of an id with no recorded result stays where it is, the
\* text before it and the text after it being resolved as if on their own.
Prepared(r) == pc[r] = "prep" /\ tasks[r][1].st = "returned"
Unrecorded(r) == DepIds \ Keys(step_results[r])
At(s, i, pat) == i + Len(pat) - 1 <= Len(s) /\ SubSeq(s, i, i + Len(pat) - 1) = pat
C24_Frame ==
    \A r \in RunIds :
        Prepared(r) =>
            LET task == tasks[r][1].arg
                out == tasks[r][1].ret
                sr == step_results[r]
            IN /\ ~task.isstr => out = task
               /\ (task.isstr /\ \A x \in Keys(sr) :
                                     ~Contains(task.val, placeholder(x)))
                      => out = task
               /\ task.isstr =>
                      \A x \in Unrecorded(r) : \A i \in 1..Len(task.val) :
                          At(task.val, i, placeholder(x)) =>
                              out = Str(substitute(SubSeq(task.val, 1, i - 1), sr)
                                        \o placeholder(x)
                                        \o substitute(SubSeq(task.val, i + 3,
                                                             Len(task.val)), sr))

\* a string task with a placeholder of an unrecorded id and a placeholder
\* of a recorded one has been prepared: the first is still there
C24_Witness ==
    \E r \in RunIds :
        /\ Prepared(r)
        /\ tasks[r][1].arg.isstr
        /\ tasks[r][1].ret # tasks[r][1].arg
        /\ \E x \in Unrecorded(r) :
               /\ Contains(tasks[r][1].arg.val, placeholder(x))
               /\ Contains(tasks[r][1].ret.val, placeholder(x))

\* ----------------------------------------------------------------- C28
\* C28: whatever max_concurrent is, a run that has started has ended or is
\* awaiting a batch of at least one step, each of them a frontier step; the
\* loop is never turning with nothing dispatched.
C28_LoopProgress ==
    \A r \in RunIds :
        Started(r) =>
            \/ pc[r] = "done"
            \/ /\ pc[r] = "gather"
               /\ Len(tasks[r]) >= 1
               /\ \A k \in 1..Len(tasks[r]) : tasks[r][k].step \in Frontier(r)

\* ----------------------------------------------------------------- C29
\* C29: the task _prepare_task returns for a string task is the one a
\* single left-to-right scan of the task gives, in which each placeholder
\* of a recorded id is replaced by the stringified output and inserted text
\* is not looked at again; and it is the same when the entries of the
\* results map are visited in the opposite order.
RECURSIVE SinglePass(_, _)
SinglePass(s, sr) ==
    IF s = <<>> THEN s
    ELSE IF \E x \in Keys(sr) : At(s, 1, placeholder(x))
         THEN str(Lookup(sr, s[2])) \o SinglePass(SubSeq(s, 4, Len(s)), sr)
         ELSE <<Head(s)>> \o SinglePass(Tail(s), sr)
Reverse(m) == [i \in 1..Len(m) |-> m[Len(m) + 1 - i]]
C29_SinglePass ==
    \A r \in RunIds :
        (Prepared(r) /\ tasks[r][1].arg.isstr) =>
            /\ tasks[r][1].ret = Str(SinglePass(tasks[r][1].arg.val, step_results[r]))
            /\ tasks[r][1].ret =
                   prepare_task(tasks[r][1].arg, Reverse(step_results[r]))

\* ----------------------------------------------------------------- C25
\* C25: while a run is awaiting a batch and holds the status entry of its
\* workflow id, get_workflow_status returns its result object, whose
\* results hold the output of every step completed so far and whose errors
\* are the failures recorded so far.
C25_ProgressVisible ==
    \A r \in RunIds :
        (/\ pc[r] = "gather"
         /\ wid[r] \in DOMAIN active_workflows
         /\ active_workflows[wid[r]] = r) =>
            LET status == get_workflow_status(wid[r])
            IN /\ status = result[r]
               /\ status.errors = result[r].errors
               /\ \A id \in completed_steps[r] :
                      /\ id \in Keys(status.results)
                      /\ Lookup(status.results, id) = Lookup(step_results[r], id)

\* ----------------------------------------------------------------- C26
\* C26: when the two runs are on different workflow ids, a step of one run
\* changes no local, result or status entry of the other; the task a call
\* is given is resolved from the run's own step_results; every recorded
\* output belongs to a step of the run's own workflow; the status entry of
\* the run's id is its own while it runs and gone when it has returned;
\* and a run that completes returns its own step_results.
Other(r) == 3 - r
Locals(r) ==
    <<pc[r], wid[r], result[r], completed_steps[r], step_results[r],
      tasks[r], outcome[r]>>
Entry(w) == IF w \in DOMAIN active_workflows THEN active_workflows[w] ELSE 0
C26_Frame ==
    \A r \in RunIds :
        (Locals(r)' # Locals(r) /\ wid'[r] # wid[Other(r)]) =>
            /\ Locals(Other(r))' = Locals(Other(r))
            /\ Entry(wid[Other(r)])' = Entry(wid[Other(r)])
C26_Own ==
    \A r \in RunIds :
        (Started(r) /\ wid[r] # wid[Other(r)]) =>
            /\ pc[r] = "gather" =>
                   /\ Entry(wid[r]) = r
                   /\ \A k \in 1..Len(tasks[r]) :
                          tasks[r][k].st \in {"awaiting", "returned"} =>
                              tasks[r][k].arg =
                                  prepare_task(StepOf(r, k).task, step_results[r])
            /\ pc[r] = "done" => Entry(wid[r]) = 0
            /\ \A i \in 1..Len(step_results[r]) :
                   \E j \in 1..Len(Steps(r)) : \E n \in 0..Len(step_results[r]) :
                       /\ Steps(r)[j].id = step_results[r][i].id
                       /\ step_results[r][i].val =
                              prepare_task(Steps(r)[j].task,
                                           SubSeq(step_results[r], 1, n))
            /\ DOMAIN result[r].errors \subseteq IdsOf(Steps(r)) \cup {"workflow"}
            /\ (Returned(r) /\ result[r].state = "completed") =>
                   result[r].results = step_results[r]
C26_RunIsolation == [][C26_Frame]_vars /\ []C26_Own

\* both runs are awaiting a batch, on different workflow ids; one has
\* recorded the output of step a, the other was given a task that names a
C26_Witness ==
    \E r \in RunIds :
        /\ pc[r] = "gather" /\ pc[Other(r)] = "gather"
        /\ wid[r] # wid[Other(r)]
        /\ "a" \in Keys(step_results[r])
        /\ \E k \in 1..Len(tasks[Other(r)]) :
               /\ tasks[Other(r)][k].st = "awaiting"
               /\ tasks[Other(r)][k].arg = GotA

\* ----------------------------------------------------------------- C27
\* C27: a run that is awaiting a batch has a status entry under its
\* workflow id (get_workflow_status returns a result and cancel_workflow
\* would return True), and the step in which a run ends leaves in place
\* the status entry of another run of the same id that is still executing.
C27_Tracked ==
    \A r \in RunIds :
        pc[r] = "gather" =>
            /\ wid[r] \in DOMAIN active_workflows
            /\ get_workflow_status(wid[r]) # Absent
C27_EndStep ==
    \A r \in RunIds :
        (/\ pc[r] = "gather" /\ pc'[r] = "done"
         /\ pc[Other(r)] = "gather"
         /\ wid[Other(r)] = wid[r]
         /\ Entry(wid[r]) = Other(r)) => Entry(wid[r])' = Other(r)
C27_SameIdOverlap == []C27_Tracked /\ [][C27_EndStep]_vars

\* ----------------------------------------------------------------- C30
\* C30: when a run has returned with the workflow-level error, the list of
\* step ids the error names is not empty, and every step whose id is not
\* completed has a dependency that is not completed.
C30_CycleNamesBlocked ==
    \A r \in RunIds :
        (Returned(r) /\ "workflow" \in DOMAIN result[r].errors) =>
            /\ result[r].errors["workflow"].arg # <<>>
            /\ \A j \in 1..Len(Steps(r)) :
                   Steps(r)[j].id \notin completed_steps[r] =>
                       ~(Steps(r)[j].dependencies \subseteq completed_steps[r])

====
